---- MODULE Spec2Model ----
(***************************************************************************)
(* A model of the WiThrottle protocol engine (src/WiThrottle.cpp, the      *)
(* second, newer snapshot in that file, lines 428-1001, with the class     *)
(* declaration of src/unnamed/part_000).                                   *)
(*                                                                         *)
(* Text is modelled as sequences of one-character strings.  double/float   *)
(* values (currentFastTime, fastTimeRate) are held in tenths: 20 is 2.0.  *)
(* Every public operation is one action; check() drains every byte the     *)
(* transport has available in the same step, as the while loop does.       *)
(***************************************************************************)
EXTENDS Integers, Sequences, FiniteSets, TLC

VARIABLES
    \* ---- the object's fields (src/unnamed/part_000:93-136)
    server,            \* bool server (constructor argument)
    stream,            \* Stream *stream: FALSE is NULL, TRUE is an attached transport
    delegate,          \* WiThrottleDelegate *delegate: FALSE is NULL
    deviceName,        \* String deviceName
    inputbuffer,       \* the bytes of inputbuffer[0 .. nextChar-1]
    nextChar,          \* where the next character goes in the buffer
    heartbeatPeriod,   \* int heartbeatPeriod
    currentFastTime,   \* double currentFastTime, in tenths
    fastTimeRate,      \* float fastTimeRate, in tenths
    locomotiveSelected,
    clockChanged, heartbeatChanged, locomotiveChanged,
    protocolVersion,   \* String protocolVersion
    currentAddress,    \* String currentAddress
    currentSpeed,      \* int currentSpeed
    currentDirection,  \* Direction currentDirection
    \* ---- the two Chrono timers (Chrono::SECONDS): the second each was
    \* ---- last restarted at
    fastTimeTimer,
    heartbeatTimer,
    \* ---- the environment
    now,               \* real time, in whole seconds since construction
    avail,             \* bytes the transport holds, not yet read by check()
    \* ---- what the last operation did (observation only)
    op,                \* the name of the last operation
    ret,               \* its return value
    out,               \* the lines it printed on the transport
    calls,             \* the delegate methods it called, in order
    segs,              \* check(): the newline-terminated segments it completed
    segLen,            \* bytes read so far of the segment not yet terminated
    maxIdx,            \* check(): highest inputbuffer index it wrote, -1 if none
    lastBeat           \* the second this session last sent a heartbeat or was
                       \* given a positive heartbeat period, -1 if it never was

engine == <<stream, deviceName, inputbuffer, nextChar, heartbeatPeriod,
            currentFastTime, fastTimeRate, locomotiveSelected, clockChanged,
            heartbeatChanged, locomotiveChanged, protocolVersion,
            currentAddress, currentSpeed, currentDirection>>

timers == <<fastTimeTimer, heartbeatTimer>>

observed == <<op, ret, out, calls, segs, segLen, maxIdx, lastBeat>>

vars == <<server, delegate, engine, timers, now, avail, observed>>

----------------------------------------------------------------------------
(* Bounds of the model.                                                    *)

\* inputbuffer is char[1024] in the source (src/unnamed/part_000:116) and
\* the overflow test is nextChar == 1023, its last index; the model keeps
\* that relation (LineLimit) on a buffer scaled down to this many bytes.
InputBufferSize == 16

\* the longest run of bytes without a newline the server sends
MaxSegment == 33

----------------------------------------------------------------------------
(* Program constants.                                                      *)

LineLimit == InputBufferSize - 1

NEWLINE == "\n"

PROPERTY_SEPARATOR == <<"<", ";", ">">>

MIN_SPEED == 0

MAX_SPEED == 126

Reverse == 0

Forward == 1

PowerOff == 0

PowerOn == 1

PowerUnknown == 2

----------------------------------------------------------------------------
(* Arduino String operations, as the code uses them.                       *)

Digits == {"0", "1", "2", "3", "4", "5", "6", "7", "8", "9"}

DigitVal(c) ==
    CASE c = "0" -> 0 [] c = "1" -> 1 [] c = "2" -> 2 [] c = "3" -> 3
      [] c = "4" -> 4 [] c = "5" -> 5 [] c = "6" -> 6 [] c = "7" -> 7
      [] c = "8" -> 8 [] c = "9" -> 9

Min(a, b) == IF a < b THEN a ELSE b

\* s.substring(from): the text from 0-based index `from` to the end
substring(s, from) ==
    IF from >= Len(s) THEN <<>> ELSE SubSeq(s, from + 1, Len(s))

\* s.substring(from, to): 0-based, `to` exclusive
substring2(s, from, to) == SubSeq(s, from + 1, Min(to, Len(s)))

\* s.startsWith(p)
startsWith(s, p) == Len(s) >= Len(p) /\ SubSeq(s, 1, Len(p)) = p

\* s.indexOf(p): the 0-based index of the first occurrence, -1 if none
indexOf(s, p) ==
    LET hits == {i \in 0 .. (Len(s) - Len(p)) : SubSeq(s, i + 1, i + Len(p)) = p}
    IN  IF hits = {} THEN -1 ELSE CHOOSE i \in hits : \A j \in hits : i <= j

\* the length of the longest prefix of s made of digits
RECURSIVE DigitRun(_)
DigitRun(s) ==
    IF s = <<>> \/ Head(s) \notin Digits THEN 0 ELSE 1 + DigitRun(Tail(s))

\* the value of a digit string, most significant digit first
RECURSIVE DigitsValue(_, _)
DigitsValue(s, acc) ==
    IF s = <<>> THEN acc ELSE DigitsValue(Tail(s), 10 * acc + DigitVal(Head(s)))

\* s.toInt(): atol -- an optional sign, then the leading digits; 0 if none
toInt(s) ==
    LET neg  == s # <<>> /\ Head(s) = "-"
        body == IF s # <<>> /\ Head(s) \in {"-", "+"} THEN Tail(s) ELSE s
        n    == DigitsValue(SubSeq(body, 1, DigitRun(body)), 0)
    IN  IF neg THEN 0 - n ELSE n

\* s.toFloat(): atof -- an optional sign, digits, an optional '.' and digits;
\* in tenths, the first fractional digit being kept
toFloat(s) ==
    LET neg  == s # <<>> /\ Head(s) = "-"
        body == IF s # <<>> /\ Head(s) \in {"-", "+"} THEN Tail(s) ELSE s
        k    == DigitRun(body)
        ip   == DigitsValue(SubSeq(body, 1, k), 0)
        rest == substring(body, k)
        fp   == IF Len(rest) >= 2 /\ rest[1] = "." /\ rest[2] \in Digits
                THEN DigitVal(rest[2]) ELSE 0
        n    == 10 * ip + fp
    IN  IF neg THEN 0 - n ELSE n

\* String(int): decimal digits of a non-negative int
RECURSIVE IntToString(_)
IntToString(n) ==
    LET d == CASE n % 10 = 0 -> "0" [] n % 10 = 1 -> "1" [] n % 10 = 2 -> "2"
               [] n % 10 = 3 -> "3" [] n % 10 = 4 -> "4" [] n % 10 = 5 -> "5"
               [] n % 10 = 6 -> "6" [] n % 10 = 7 -> "7" [] n % 10 = 8 -> "8"
               [] n % 10 = 9 -> "9"
    IN  IF n < 10 THEN <<d>> ELSE IntToString(n \div 10) \o <<d>>

----------------------------------------------------------------------------
(* The command processors.  Each takes the engine's state during one       *)
(* check() as a record st and gives the record after the call; st.rv is    *)
(* the value the call returns and st.kind the branch processCommand took.  *)
(* st.delegate and st.currentAddress are read only; st.ub is the value a   *)
(* bool function that ends without a return statement hands back.          *)

Call(m, a) == [m |-> m, a |-> a]

notify(st, m, a) == [st EXCEPT !.calls = Append(@, Call(m, a))]

\* int t = s.toInt(); currentFastTime = t;
setCurrentFastTime(st, s) ==
    [st EXCEPT !.currentFastTime = 10 * toInt(s)]

processFastTime(st, c) ==
    LET p == indexOf(c, PROPERTY_SEPARATOR)
    IN  IF p > 0
        THEN LET timeval == substring2(c, 0, p)
                 rate    == substring(c, p + 3)
             IN  [setCurrentFastTime(st, timeval) EXCEPT
                     !.fastTimeRate = toFloat(rate), !.rv = TRUE]
        ELSE [setCurrentFastTime(st, c) EXCEPT !.rv = TRUE]

\* a heartbeat processor that takes a period of zero as usable
processHeartbeatFromZero(st, c) ==
    LET period == toInt(c)
    IN  IF period >= 0
        THEN [st EXCEPT !.heartbeatPeriod = period,
                        !.heartbeatChanged = TRUE, !.rv = TRUE]
        ELSE [st EXCEPT !.heartbeatPeriod = period, !.rv = FALSE]

processHeartbeat(st, c) ==
    LET period == toInt(c)
    IN  IF period > 0
        THEN [st EXCEPT !.heartbeatPeriod = period,
                        !.heartbeatChanged = TRUE, !.rv = TRUE]
        ELSE [st EXCEPT !.heartbeatPeriod = period, !.rv = FALSE]

processProtocolVersion(st, c) ==
    IF st.delegate /\ Len(c) > 0
    THEN notify([st EXCEPT !.protocolVersion = c], "receivedVersion", c)
    ELSE st

processWebPort(st, c) ==
    IF st.delegate /\ Len(c) > 0
    THEN notify(st, "receivedWebPort", toInt(c))
    ELSE st

\* a track-power processor that stops the fast clock as well
processTrackPowerStoppingClock(st, c) ==
    IF st.delegate /\ Len(c) > 0
    THEN notify([st EXCEPT !.fastTimeRate = 0], "receivedTrackPower",
                IF c[1] = "0" THEN PowerOff
                ELSE IF c[1] = "1" THEN PowerOn ELSE PowerUnknown)
    ELSE [st EXCEPT !.fastTimeRate = 0]

processTrackPower(st, c) ==
    IF st.delegate /\ Len(c) > 0
    THEN notify(st, "receivedTrackPower",
                IF c[1] = "0" THEN PowerOff
                ELSE IF c[1] = "1" THEN PowerOn ELSE PowerUnknown)
    ELSE st

\* uint8_t funcNum = funcNumStr.toInt();
processFunctionState(st, functionData) ==
    IF st.delegate /\ Len(functionData) >= 3
    THEN LET state      == functionData[2] = "1"
             funcNumStr == substring(functionData, 2)
             funcNum    == toInt(funcNumStr) % 256
         IN  IF funcNum = 0 /\ funcNumStr # <<"0">>
             THEN st
             ELSE notify(st, "receivedFunctionState", <<funcNum, state>>)
    ELSE st

\* a speed processor that also raises the locomotive flag
processSpeedFlagging(st, speedData) ==
    IF st.delegate /\ Len(speedData) >= 2
    THEN LET parsed == toInt(substring(speedData, 1))
             speed  == IF parsed < MIN_SPEED \/ parsed > MAX_SPEED
                       THEN 0 ELSE parsed
         IN  [notify(st, "receivedSpeed", speed)
                 EXCEPT !.locomotiveChanged = TRUE]
    ELSE st

processSpeed(st, speedData) ==
    IF st.delegate /\ Len(speedData) >= 2
    THEN LET parsed == toInt(substring(speedData, 1))
             speed  == IF parsed < MIN_SPEED \/ parsed > MAX_SPEED
                       THEN 0 ELSE parsed
         IN  notify(st, "receivedSpeed", speed)
    ELSE st

\* a speed-steps processor that reports whatever number it is given
processSpeedStepsAny(st, speedStepData) ==
    IF st.delegate /\ Len(speedStepData) >= 2
    THEN notify(st, "receivedSpeedSteps", toInt(substring(speedStepData, 1)))
    ELSE st

processSpeedSteps(st, speedStepData) ==
    IF st.delegate /\ Len(speedStepData) >= 2
    THEN LET steps == toInt(substring(speedStepData, 1))
         IN  IF steps \notin {1, 2, 4, 8, 16}
             THEN st
             ELSE notify(st, "receivedSpeedSteps", steps)
    ELSE st

processDirection(st, directionStr) ==
    IF st.delegate /\ Len(directionStr) = 2
    THEN LET d == IF directionStr[2] = "0" THEN Reverse ELSE Forward
         IN  notify([st EXCEPT !.currentDirection = d], "receivedDirection", d)
    ELSE st

\* a locomotive action processor that knows the prefix "*<;>" only
processLocomotiveActionUnaddressed(st, c) ==
    LET allCheck  == <<"*">> \o PROPERTY_SEPARATOR
        remainder == IF startsWith(c, allCheck)
                     THEN substring(c, Len(allCheck))
                     ELSE c
    IN  IF Len(remainder) > 0
        THEN LET action == remainder[1]
                 s1 == CASE action = "F" -> processFunctionState(st, remainder)
                         [] action = "V" -> processSpeed(st, remainder)
                         [] action = "s" -> processSpeedSteps(st, remainder)
                         [] action = "R" -> processDirection(st, remainder)
                         [] OTHER -> st
             IN  [s1 EXCEPT !.rv = TRUE]
        ELSE [st EXCEPT !.rv = FALSE]

processLocomotiveAction(st, c) ==
    LET addrCheck == st.currentAddress \o PROPERTY_SEPARATOR
        allCheck  == <<"*">> \o PROPERTY_SEPARATOR
        remainder == IF startsWith(c, addrCheck)
                     THEN substring(c, Len(addrCheck))
                     ELSE IF startsWith(c, allCheck)
                          THEN substring(c, Len(allCheck))
                          ELSE c
    IN  IF Len(remainder) > 0
        THEN LET action == remainder[1]
                 s1 == CASE action = "F" -> processFunctionState(st, remainder)
                         [] action = "V" -> processSpeed(st, remainder)
                         [] action = "s" -> processSpeedSteps(st, remainder)
                         [] action = "R" -> processDirection(st, remainder)
                         [] OTHER -> st
             IN  [s1 EXCEPT !.rv = TRUE]
        ELSE [st EXCEPT !.rv = FALSE]

\* the if/else-if chain of processCommand; the last branch ends the bool
\* function without a return statement
processCommand(st, c) ==
    LET len == Len(c)
    IN  IF len > 3 /\ c[1] = "P" /\ c[2] = "F" /\ c[3] = "T"
        THEN [processFastTime(st, substring(c, 3)) EXCEPT !.kind = "FastTime"]
        ELSE IF len > 3 /\ c[1] = "P" /\ c[2] = "P" /\ c[3] = "A"
        THEN [processTrackPower(st, substring(c, 3)) EXCEPT
                 !.rv = TRUE, !.kind = "TrackPower"]
        ELSE IF len > 1 /\ c[1] = "*"
        THEN [processHeartbeat(st, substring(c, 1)) EXCEPT !.kind = "Heartbeat"]
        ELSE IF len > 2 /\ c[1] = "V" /\ c[2] = "N"
        THEN [processProtocolVersion(st, substring(c, 2)) EXCEPT
                 !.rv = TRUE, !.kind = "ProtocolVersion"]
        ELSE IF len > 2 /\ c[1] = "P" /\ c[2] = "W"
        THEN [processWebPort(st, substring(c, 2)) EXCEPT
                 !.rv = TRUE, !.kind = "WebPort"]
        ELSE IF len > 8 /\ c[1] = "M" /\ c[2] = "T" /\ c[3] = "A"
        THEN [processLocomotiveAction(st, substring(c, 3)) EXCEPT
                 !.kind = "LocomotiveAction"]
        ELSE [st EXCEPT !.rv = st.ub, !.kind = "Ignored"]

----------------------------------------------------------------------------
(* check(): the body of the read loop for one byte, and the loop.          *)

Max(a, b) == IF a > b THEN a ELSE b

\* a completed line handed to processCommand, with what came of it
Line(text, s) == [text |-> text, kind |-> s.kind, rv |-> s.rv]

\* a newline branch without the test for an empty buffer
readNewlineAlways(st) ==
    LET s1 == processCommand([st EXCEPT !.maxIdx = Max(@, st.nextChar)],
                             st.inputbuffer)
    IN  [s1 EXCEPT !.changed = @ \/ s1.rv,
                   !.nextChar = 0,
                   !.inputbuffer = <<>>,
                   !.segs = Append(@, [len |-> st.segLen,
                                       handed |-> <<Line(st.inputbuffer, s1)>>]),
                   !.segLen = 0]

\* b == NEWLINE: terminate and process the line unless the buffer is empty
readNewline(st) ==
    LET s1 == IF st.nextChar # 0
              THEN processCommand(
                       [st EXCEPT !.maxIdx = Max(@, st.nextChar)],
                       st.inputbuffer)
              ELSE st
        handed == IF st.nextChar # 0 THEN <<Line(st.inputbuffer, s1)>> ELSE <<>>
    IN  [s1 EXCEPT !.changed = IF st.nextChar # 0 THEN @ \/ s1.rv ELSE @,
                   !.nextChar = 0,
                   !.inputbuffer = <<>>,
                   !.segs = Append(@, [len |-> st.segLen, handed |-> handed]),
                   !.segLen = 0]

\* a data branch that tests for the overflow two bytes late
readDataLate(st, b) ==
    LET n == st.nextChar + 1
    IN  IF n = LineLimit + 2
        THEN [st EXCEPT !.maxIdx = Max(@, LineLimit + 2),
                        !.nextChar = 0,
                        !.inputbuffer = <<>>,
                        !.segLen = @ + 1]
        ELSE [st EXCEPT !.maxIdx = Max(@, st.nextChar),
                        !.nextChar = n,
                        !.inputbuffer = Append(@, b),
                        !.segLen = @ + 1]

\* any other byte: store it; at LineLimit bytes report and drop the buffer
readData(st, b) ==
    LET n == st.nextChar + 1
    IN  IF n = LineLimit
        THEN [st EXCEPT !.maxIdx = Max(@, LineLimit),
                        !.nextChar = 0,
                        !.inputbuffer = <<>>,
                        !.segLen = @ + 1]
        ELSE [st EXCEPT !.maxIdx = Max(@, st.nextChar),
                        !.nextChar = n,
                        !.inputbuffer = Append(@, b),
                        !.segLen = @ + 1]

readByte(st, b) == IF b = NEWLINE THEN readNewline(st) ELSE readData(st, b)

\* while (stream->available()) { char b = stream->read(); ... }
RECURSIVE readAll(_, _)
readAll(st, bytes) ==
    IF bytes = <<>> THEN st ELSE readAll(readByte(st, Head(bytes)), Tail(bytes))

\* sendCommand(cmd) on an attached transport: the lines it prints
printed(cmd) == IF server THEN <<cmd, <<>>>> ELSE <<cmd>>

\* a sendCommand that does not test the stream pointer
sendCommandUnguarded(cmd) == printed(cmd)

sendCommand(cmd) == IF stream THEN printed(cmd) ELSE <<>>

\* Chrono::hasPassed(timeout): elapsed() >= timeout, in whole seconds
hasPassed(timer, timeout) == now - timer >= timeout

\* fastTimeTimer.hasPassed(1)
fastTimeDue == hasPassed(fastTimeTimer, 1)

\* a threshold of 1.2 times the period
heartbeatThresholdLate(period) == (12 * period) \div 10

\* hasPassed(0.8 * heartbeatPeriod): the double is converted to the
\* unsigned long the timer takes, which drops the fraction
heartbeatThreshold(period) == (8 * period) \div 10

heartbeatDue ==
    heartbeatPeriod > 0
    /\ hasPassed(heartbeatTimer, heartbeatThreshold(heartbeatPeriod))

\* a ticker that marks the clock changed whenever it fires
checkFastTimeFlagging(st) ==
    IF fastTimeDue
    THEN [st EXCEPT !.currentFastTime = @ + st.fastTimeRate,
                    !.clockChanged = TRUE, !.changed = TRUE]
    ELSE [st EXCEPT !.changed = TRUE]

\* checkFastTime(): the fast time and the flag after it (it returns true)
checkFastTime(st) ==
    IF fastTimeDue
    THEN IF st.fastTimeRate = 0
         THEN [st EXCEPT !.clockChanged = FALSE, !.changed = TRUE]
         ELSE [st EXCEPT !.currentFastTime = @ + st.fastTimeRate,
                         !.clockChanged = TRUE, !.changed = TRUE]
    ELSE [st EXCEPT !.changed = TRUE]

\* checkHeartbeat()
checkHeartbeat(st) ==
    IF heartbeatDue
    THEN [st EXCEPT !.out = @ \o sendCommand(<<"*">>), !.changed = TRUE]
    ELSE st

\* the lines handed to processCommand for the segments sg, in order
RECURSIVE handedIn(_)
handedIn(sg) == IF sg = <<>> THEN <<>> ELSE Head(sg).handed \o handedIn(Tail(sg))

\* one of the lines ls was a heartbeat line with a positive period
periodGiven(ls) == \E i \in DOMAIN ls : ls[i].kind = "Heartbeat" /\ ls[i].rv

\* the engine as a call finds it
held(ub) ==
    [inputbuffer |-> inputbuffer, nextChar |-> nextChar,
     heartbeatPeriod |-> heartbeatPeriod, heartbeatChanged |-> heartbeatChanged,
     currentFastTime |-> currentFastTime, fastTimeRate |-> fastTimeRate,
     clockChanged |-> clockChanged, locomotiveChanged |-> locomotiveChanged,
     currentDirection |-> currentDirection, protocolVersion |-> protocolVersion,
     delegate |-> delegate, currentAddress |-> currentAddress, ub |-> ub,
     changed |-> FALSE, rv |-> FALSE, kind |-> "none",
     out |-> <<>>, calls |-> <<>>, segs |-> <<>>, segLen |-> segLen,
     maxIdx |-> -1]

\* an entry to check() that starts every call on an empty buffer
checkEntryFresh(st) ==
    [st EXCEPT !.heartbeatChanged = FALSE, !.clockChanged = FALSE,
               !.locomotiveChanged = FALSE, !.changed = FALSE,
               !.inputbuffer = <<>>, !.nextChar = 0,
               !.rv = FALSE, !.kind = "none", !.out = <<>>, !.calls = <<>>,
               !.segs = <<>>, !.maxIdx = -1]

\* the entry to check(): bool changed = false; resetChangeFlags(); the
\* buffer and its cursor are members and stay as the call before left them
checkEntry(st) ==
    [st EXCEPT !.heartbeatChanged = FALSE, !.clockChanged = FALSE,
               !.locomotiveChanged = FALSE, !.changed = FALSE,
               !.rv = FALSE, !.kind = "none", !.out = <<>>, !.calls = <<>>,
               !.segs = <<>>, !.maxIdx = -1]

\* the state check() starts from: flags reset, nothing observed yet
checkStart(ub) == checkEntry(held(ub))

\* a check() that looks at the heartbeat after the lines, not before them
checkAttachedHeartbeatLast(ub) ==
    LET s == readAll(checkFastTime(checkStart(ub)), avail)
    IN  IF s.heartbeatPeriod > 0
           /\ hasPassed(heartbeatTimer, heartbeatThreshold(s.heartbeatPeriod))
        THEN [s EXCEPT !.out = @ \o sendCommand(<<"*">>), !.changed = TRUE]
        ELSE s

\* the whole of check() with a transport attached
checkAttached(ub) ==
    readAll(checkHeartbeat(checkFastTime(checkStart(ub))), avail)

----------------------------------------------------------------------------
(* The public operations, one action each.                                 *)

\* what an operation that is not check() leaves of check()'s observations
noCheckObserved == /\ segs' = <<>>
                   /\ maxIdx' = -1
                   /\ UNCHANGED <<segLen, lastBeat>>

resetChangeFlags ==
    /\ clockChanged' = FALSE
    /\ heartbeatChanged' = FALSE
    /\ locomotiveChanged' = FALSE

\* an init() that leaves the line buffer as it is
initKeepingLine ==
    /\ heartbeatPeriod' = 0
    /\ currentFastTime' = 0
    /\ fastTimeRate' = 0
    /\ locomotiveSelected' = FALSE
    /\ resetChangeFlags
    /\ UNCHANGED <<inputbuffer, nextChar, deviceName, protocolVersion,
                   currentAddress, currentSpeed, currentDirection>>

\* init(), but for stream, which connect() assigns after it
init ==
    /\ inputbuffer' = <<>>
    /\ nextChar' = 0
    /\ heartbeatPeriod' = 0
    /\ currentFastTime' = 0
    /\ fastTimeRate' = 0
    /\ locomotiveSelected' = FALSE
    /\ resetChangeFlags
    /\ UNCHANGED <<deviceName, protocolVersion, currentAddress, currentSpeed,
                   currentDirection>>

\* connect(stream); `fresh` tells a new transport from the one used before
connect(fresh) ==
    /\ init
    /\ stream' = TRUE
    /\ avail' = IF fresh THEN <<>> ELSE avail
    /\ op' = "connect" /\ ret' = FALSE /\ out' = <<>> /\ calls' = <<>>
    /\ segs' = <<>> /\ maxIdx' = -1 /\ segLen' = 0 /\ lastBeat' = -1
    /\ UNCHANGED <<server, delegate, timers, now>>

\* a disconnect() that also forgets the heartbeat period
disconnectClearingHeartbeat ==
    /\ stream' = FALSE
    /\ heartbeatPeriod' = 0
    /\ UNCHANGED <<deviceName, inputbuffer, nextChar,
                   currentFastTime, fastTimeRate, locomotiveSelected,
                   clockChanged, heartbeatChanged, locomotiveChanged,
                   protocolVersion, currentAddress, currentSpeed,
                   currentDirection>>
    /\ op' = "disconnect" /\ ret' = FALSE /\ out' = <<>> /\ calls' = <<>>
    /\ noCheckObserved
    /\ UNCHANGED <<server, delegate, timers, now, avail>>

disconnect ==
    /\ stream' = FALSE
    /\ UNCHANGED <<deviceName, inputbuffer, nextChar, heartbeatPeriod,
                   currentFastTime, fastTimeRate, locomotiveSelected,
                   clockChanged, heartbeatChanged, locomotiveChanged,
                   protocolVersion, currentAddress, currentSpeed,
                   currentDirection>>
    /\ op' = "disconnect" /\ ret' = FALSE /\ out' = <<>> /\ calls' = <<>>
    /\ noCheckObserved
    /\ UNCHANGED <<server, delegate, timers, now, avail>>

\* an outbound operation: the fields it assigns are given by the caller
outbound(name, r, cmds) ==
    /\ op' = name /\ ret' = r /\ out' = cmds /\ calls' = <<>>
    /\ noCheckObserved
    /\ UNCHANGED <<server, stream, delegate, timers, now, avail, inputbuffer,
                   nextChar, heartbeatPeriod, currentFastTime, fastTimeRate,
                   locomotiveSelected, clockChanged, heartbeatChanged,
                   locomotiveChanged, protocolVersion>>

setDeviceName(name) ==
    /\ deviceName' = name
    /\ outbound("setDeviceName", FALSE, sendCommand(<<"N">> \o name))
    /\ UNCHANGED <<currentAddress, currentSpeed, currentDirection>>

\* bool requireHeartbeat(bool needed) ends without a return statement
requireHeartbeat(needed, ub) ==
    /\ outbound("requireHeartbeat", ub,
                sendCommand(IF needed THEN <<"*", "+">> ELSE <<"*", "-">>))
    /\ UNCHANGED <<deviceName, currentAddress, currentSpeed, currentDirection>>

addLocomotive(address) ==
    LET ok == Len(address) > 0 /\ address[1] \in {"S", "L"}
    IN  /\ currentAddress' = IF ok THEN address ELSE currentAddress
        /\ outbound("addLocomotive", ok,
                    IF ok
                    THEN sendCommand(<<"M", "T", "+">> \o address
                                     \o PROPERTY_SEPARATOR \o address)
                    ELSE <<>>)
        /\ UNCHANGED <<deviceName, currentSpeed, currentDirection>>

\* a release that forgets the selected address
releaseLocomotiveClearing ==
    /\ currentAddress' = <<>>
    /\ outbound("releaseLocomotive", TRUE,
                sendCommand(<<"M", "T", "-", "*">> \o PROPERTY_SEPARATOR))
    /\ UNCHANGED <<deviceName, currentSpeed, currentDirection>>

releaseLocomotive ==
    /\ outbound("releaseLocomotive", TRUE,
                sendCommand(<<"M", "T", "-", "*">> \o PROPERTY_SEPARATOR))
    /\ UNCHANGED <<deviceName, currentAddress, currentSpeed, currentDirection>>

setSpeed(speed) ==
    LET ok == ~(speed < 0 \/ speed > 126)
    IN  /\ currentSpeed' = IF ok THEN speed ELSE currentSpeed
        /\ outbound("setSpeed", ok,
                    IF ok
                    THEN sendCommand(<<"M", "T", "A", "*">> \o PROPERTY_SEPARATOR
                                     \o <<"V">> \o IntToString(speed))
                    ELSE <<>>)
        /\ UNCHANGED <<deviceName, currentAddress, currentDirection>>

setDirection(direction) ==
    /\ currentDirection' = direction
    /\ outbound("setDirection", TRUE,
                sendCommand(<<"M", "T", "A", "*">> \o PROPERTY_SEPARATOR \o <<"R">>
                            \o (IF direction = Reverse THEN <<"0">> ELSE <<"1">>)))
    /\ UNCHANGED <<deviceName, currentAddress, currentSpeed>>

emergencyStop ==
    /\ outbound("emergencyStop", TRUE,
                sendCommand(<<"M", "T", "A", "*">> \o PROPERTY_SEPARATOR \o <<"X">>))
    /\ UNCHANGED <<deviceName, currentAddress, currentSpeed, currentDirection>>

setFunction(funcNum, pressed) ==
    /\ outbound("setFunction", FALSE,
                IF funcNum < 0 \/ funcNum > 28
                THEN <<>>
                ELSE sendCommand(<<"M", "T", "A">> \o currentAddress
                                 \o PROPERTY_SEPARATOR \o <<"F">>
                                 \o (IF pressed THEN <<"1">> ELSE <<"0">>)
                                 \o IntToString(funcNum)))
    /\ UNCHANGED <<deviceName, currentAddress, currentSpeed, currentDirection>>

\* check() with no transport: the flags are reset and it returns false
checkDetached ==
    /\ resetChangeFlags
    /\ ret' = FALSE /\ out' = <<>> /\ calls' = <<>>
    /\ segs' = <<>> /\ maxIdx' = -1
    /\ UNCHANGED <<inputbuffer, nextChar, heartbeatPeriod, currentFastTime,
                   fastTimeRate, currentDirection, protocolVersion, timers,
                   avail, segLen, lastBeat>>

\* check() with a transport: the timers, then every available byte
checkStream(ub) ==
    LET s == checkAttached(ub)
    IN  /\ inputbuffer' = s.inputbuffer
        /\ nextChar' = s.nextChar
        /\ heartbeatPeriod' = s.heartbeatPeriod
        /\ currentFastTime' = s.currentFastTime
        /\ fastTimeRate' = s.fastTimeRate
        /\ clockChanged' = s.clockChanged
        /\ heartbeatChanged' = s.heartbeatChanged
        /\ locomotiveChanged' = s.locomotiveChanged
        /\ currentDirection' = s.currentDirection
        /\ protocolVersion' = s.protocolVersion
        /\ fastTimeTimer' = IF fastTimeDue THEN now ELSE fastTimeTimer
        /\ heartbeatTimer' = IF heartbeatDue THEN now ELSE heartbeatTimer
        /\ avail' = <<>>
        /\ ret' = s.changed /\ out' = s.out /\ calls' = s.calls
        /\ segs' = s.segs /\ segLen' = s.segLen /\ maxIdx' = s.maxIdx
        /\ lastBeat' = IF heartbeatDue \/ periodGiven(handedIn(s.segs))
                       THEN now ELSE lastBeat

check(ub) ==
    /\ IF stream THEN checkStream(ub) ELSE checkDetached
    /\ op' = "check"
    /\ UNCHANGED <<server, stream, delegate, deviceName, locomotiveSelected,
                   currentAddress, currentSpeed, now>>

----------------------------------------------------------------------------
(* check() in steps, for a server that writes while check() is reading:    *)
(* the entry up to the loop, one turn of the loop, and the return.  While  *)
(* op is "checking" the call has not returned; ret holds `changed`, and    *)
(* out, calls and segs hold what the last step did.                        *)

\* the state a turn of the loop starts from
checkResume(ub) ==
    [checkStart(ub) EXCEPT !.heartbeatChanged = heartbeatChanged,
                           !.clockChanged = clockChanged,
                           !.locomotiveChanged = locomotiveChanged,
                           !.changed = ret,
                           !.maxIdx = maxIdx]

\* resetChangeFlags(), checkFastTime(), checkHeartbeat(), up to the loop
checkBegin(ub) ==
    LET s == checkHeartbeat(checkFastTime(checkStart(ub)))
    IN  /\ op # "checking"
        /\ stream
        /\ currentFastTime' = s.currentFastTime
        /\ clockChanged' = s.clockChanged
        /\ heartbeatChanged' = FALSE
        /\ locomotiveChanged' = FALSE
        /\ fastTimeTimer' = IF fastTimeDue THEN now ELSE fastTimeTimer
        /\ heartbeatTimer' = IF heartbeatDue THEN now ELSE heartbeatTimer
        /\ lastBeat' = IF heartbeatDue THEN now ELSE lastBeat
        /\ op' = "checking"
        /\ ret' = s.changed /\ out' = s.out /\ calls' = <<>>
        /\ segs' = <<>> /\ maxIdx' = -1
        /\ UNCHANGED <<server, stream, delegate, deviceName, inputbuffer,
                       nextChar, heartbeatPeriod, fastTimeRate,
                       locomotiveSelected, protocolVersion, currentAddress,
                       currentSpeed, currentDirection, now, avail, segLen>>

\* one turn of the loop: available() was not 0, so a byte is read
checkRead(ub) ==
    LET s == readByte(checkResume(ub), Head(avail))
    IN  /\ op = "checking"
        /\ avail # <<>>
        /\ avail' = Tail(avail)
        /\ inputbuffer' = s.inputbuffer
        /\ nextChar' = s.nextChar
        /\ heartbeatPeriod' = s.heartbeatPeriod
        /\ currentFastTime' = s.currentFastTime
        /\ fastTimeRate' = s.fastTimeRate
        /\ clockChanged' = s.clockChanged
        /\ heartbeatChanged' = s.heartbeatChanged
        /\ locomotiveChanged' = s.locomotiveChanged
        /\ currentDirection' = s.currentDirection
        /\ protocolVersion' = s.protocolVersion
        /\ lastBeat' = IF periodGiven(handedIn(s.segs)) THEN now ELSE lastBeat
        /\ ret' = s.changed /\ out' = s.out /\ calls' = s.calls
        /\ segs' = s.segs /\ segLen' = s.segLen /\ maxIdx' = s.maxIdx
        /\ UNCHANGED <<op, server, stream, delegate, deviceName,
                       locomotiveSelected, currentAddress, currentSpeed,
                       timers, now>>

\* available() was 0: the loop ends and check() returns `changed`
checkReturn ==
    /\ op = "checking"
    /\ avail = <<>>
    /\ op' = "check"
    /\ UNCHANGED <<server, delegate, engine, timers, now, avail, ret, out,
                   calls, segs, segLen, maxIdx, lastBeat>>

----------------------------------------------------------------------------
(* The environment: the host's delegate pointer, the server, real time.    *)

\* the host assigns the public field `delegate`
setDelegate(d) ==
    /\ delegate' = d
    /\ op' = "setDelegate" /\ ret' = FALSE /\ out' = <<>> /\ calls' = <<>>
    /\ noCheckObserved
    /\ UNCHANGED <<server, engine, timers, now, avail>>

\* bytes of `bytes` before its first newline
RECURSIVE headRun(_)
headRun(bytes) ==
    IF bytes = <<>> \/ Head(bytes) = NEWLINE THEN 0 ELSE 1 + headRun(Tail(bytes))

\* bytes of `bytes` after its last newline
RECURSIVE tailRun(_)
tailRun(bytes) ==
    IF bytes = <<>> \/ bytes[Len(bytes)] = NEWLINE
    THEN 0
    ELSE 1 + tailRun(SubSeq(bytes, 1, Len(bytes) - 1))

\* the length of the unterminated segment, read and unread bytes together
running == IF tailRun(avail) = Len(avail) THEN segLen + Len(avail)
           ELSE tailRun(avail)

\* the server writes `bytes`, which become available to the client; it
\* waits while the client has `room` or more bytes unread
serverSend(bytes, room) ==
    /\ Len(avail) < room
    /\ running + headRun(bytes) <= MaxSegment
    /\ avail' = avail \o bytes
    /\ op' = "serverSend" /\ ret' = FALSE /\ out' = <<>> /\ calls' = <<>>
    /\ noCheckObserved
    /\ UNCHANGED <<server, delegate, engine, timers, now>>

\* the server writes `bytes` at any moment, during a check() too: nothing
\* but the transport changes
serverWrite(bytes, room) ==
    /\ Len(avail) < room
    /\ running + headRun(bytes) <= MaxSegment
    /\ avail' = avail \o bytes
    /\ UNCHANGED <<server, delegate, engine, timers, now, observed>>

\* one real second passes for a host that polls at least once a second:
\* the last thing that happened in the second was a check()
tickPolled(limit) ==
    /\ op = "check"
    /\ now < limit
    /\ now' = now + 1
    /\ op' = "tick" /\ ret' = FALSE /\ out' = <<>> /\ calls' = <<>>
    /\ noCheckObserved
    /\ UNCHANGED <<server, delegate, engine, timers, avail>>

\* one real second passes, up to `limit` of them
tick(limit) ==
    /\ now < limit
    /\ now' = now + 1
    /\ op' = "tick" /\ ret' = FALSE /\ out' = <<>> /\ calls' = <<>>
    /\ noCheckObserved
    /\ UNCHANGED <<server, delegate, engine, timers, avail>>

----------------------------------------------------------------------------
(* The state after construction (the constructor runs init()).             *)

constructed(srv) ==
    /\ server = srv
    /\ stream = FALSE
    /\ delegate = FALSE
    /\ deviceName = <<>>
    /\ inputbuffer = <<>>
    /\ nextChar = 0
    /\ heartbeatPeriod = 0
    /\ currentFastTime = 0
    /\ fastTimeRate = 0
    /\ locomotiveSelected = FALSE
    /\ clockChanged = FALSE
    /\ heartbeatChanged = FALSE
    /\ locomotiveChanged = FALSE
    /\ protocolVersion = <<>>
    /\ currentAddress = <<>>
    /\ currentSpeed = 0
    /\ currentDirection = Forward
    /\ fastTimeTimer = 0
    /\ heartbeatTimer = 0
    /\ now = 0
    /\ avail = <<>>
    /\ op = "new" /\ ret = FALSE /\ out = <<>> /\ calls = <<>>
    /\ segs = <<>> /\ segLen = 0 /\ maxIdx = -1 /\ lastBeat = -1

Init == \E srv \in BOOLEAN : constructed(srv)

InitClient == constructed(FALSE)

----------------------------------------------------------------------------
(* Inputs.                                                                 *)

eol(line) == line \o <<NEWLINE>>

PFT_1000_2 == <<"P","F","T","1","0","0","0","<",";",">","2",".","0">>
PFT_1000   == <<"P","F","T","1","0","0","0">>
PFT_x      == <<"P","F","T","x">>
PFT_x_x    == <<"P","F","T","5","<",";",">","x">>
PFT_sep_2  == <<"P","F","T","<",";",">","2",".","0">>
HB_10      == <<"*","1","0">>
HB_0       == <<"*","0">>
HB_x       == <<"*","x">>
HB_neg     == <<"*","-","5">>
HB_1       == <<"*","1">>
HB_3       == <<"*","3">>
VN_2       == <<"V","N","2",".","0">>
PPA_1      == <<"P","P","A","1">>
PW_80      == <<"P","W","8","0">>
JUNK       == <<"x">>

\* locomotive actions addressed to every locomotive: "MTA*<;>" and an action
MTA_all    == <<"M","T","A","*","<",";",">">>
MTA_V50    == MTA_all \o <<"V","5","0">>
MTA_V200   == MTA_all \o <<"V","2","0","0">>
MTA_s3     == MTA_all \o <<"s","3">>
MTA_s4     == MTA_all \o <<"s","4">>
MTA_R0     == MTA_all \o <<"R","0">>
MTA_X      == MTA_all \o <<"X">>
MTA_Q12    == MTA_all \o <<"Q","1","2">>
MTA_F112   == MTA_all \o <<"F","1","1","2">>
MTA_F129   == MTA_all \o <<"F","1","2","9">>
MTA_F00    == MTA_all \o <<"F","0","0">>
MTA_F0x    == MTA_all \o <<"F","0","x">>
MTA_Rx     == MTA_all \o <<"R","x">>
MTA_R1x    == MTA_all \o <<"R","1","x">>

\* the command prefixes, in the order processCommand tries them
Prefixes == << <<"P","F","T">>, <<"P","P","A">>, <<"*">>, <<"V","N">>,
               <<"P","W">>, <<"M","T","A">> >>

S3         == <<"S","3">>
L41        == <<"L","4","1">>
BadAddress == <<"3">>
Sx         == <<"S","x">>

\* locomotive actions addressed to L41, and one with no address at all
MTA_L41_R0 == <<"M","T","A">> \o L41 \o PROPERTY_SEPARATOR \o <<"R","0">>
MTA_L41    == <<"M","T","A">> \o L41 \o PROPERTY_SEPARATOR
MTA_V50xx  == <<"M","T","A","V","5","0","x","x","x","x">>

----------------------------------------------------------------------------
(* Spec: the session -- connect, disconnect, the outbound operations,      *)
(* the delegate pointer, check(), and a server that sets the clock and     *)
(* the heartbeat and reports the track power.                              *)

SessionLines == {eol(PFT_1000_2), eol(HB_10), eol(PPA_1)}

SessionRoom == 1

Next ==
    \/ \E fresh \in BOOLEAN : connect(fresh)
    \/ disconnect
    \/ \E ub \in BOOLEAN : check(ub)
    \/ setDeviceName(<<"a">>)
    \/ \E needed \in BOOLEAN, ub \in BOOLEAN : requireHeartbeat(needed, ub)
    \/ \E a \in {S3, BadAddress, Sx} : addLocomotive(a)
    \/ releaseLocomotive
    \/ \E v \in {50, 127} : setSpeed(v)
    \/ \E d \in {Reverse, Forward} : setDirection(d)
    \/ emergencyStop
    \/ \E n \in {3, 29} : setFunction(n, TRUE)
    \/ \E d \in BOOLEAN : setDelegate(d)
    \/ \E bytes \in SessionLines : serverSend(bytes, SessionRoom)

Spec == InitClient /\ [][Next]_vars

----------------------------------------------------------------------------
(* SpecLines: the line assembler -- single bytes, bare newlines, a         *)
(* heartbeat line, and a line too long for the buffer whose tail reads     *)
(* as a heartbeat line.                                                    *)

Overlong == [i \in 1 .. LineLimit |-> "x"] \o eol(HB_10)

LinesChunks == {JUNK, <<NEWLINE>>, eol(HB_10), Overlong}

LinesRoom == 2

NextLines ==
    \/ \E fresh \in BOOLEAN : connect(fresh)
    \/ disconnect
    \/ \E ub \in BOOLEAN : check(ub)
    \/ \E bytes \in LinesChunks : serverSend(bytes, LinesRoom)

SpecLines == InitClient /\ [][NextLines]_vars

----------------------------------------------------------------------------
(* SpecCmd: the fast-clock and heartbeat commands, one line or two per     *)
(* poll, with the fast-clock ticker running.                               *)

CmdLines ==
    {eol(PFT_1000_2), eol(eol(PFT_1000)), eol(PFT_x), eol(PFT_x_x),
     eol(PFT_sep_2), eol(HB_10), eol(HB_0), eol(HB_x), eol(HB_neg),
     eol(HB_10) \o eol(HB_0), eol(PFT_1000_2) \o eol(HB_10)}

CmdRoom == 1

CmdSecs == 2

NextCmd ==
    \/ \E fresh \in BOOLEAN : connect(fresh)
    \/ \E ub \in BOOLEAN : check(ub)
    \/ \E bytes \in CmdLines : serverSend(bytes, CmdRoom)
    \/ tick(CmdSecs)

SpecCmd == InitClient /\ [][NextCmd]_vars

----------------------------------------------------------------------------
(* SpecAction: the dispatch of completed lines and the delegate -- every   *)
(* kind of line, the bare prefixes, and the locomotive actions, sent to a  *)
(* host that attaches and detaches its delegate.                           *)

ActionLines ==
    {eol(MTA_V50), eol(MTA_V200), eol(MTA_s3), eol(MTA_s4), eol(MTA_R0),
     eol(MTA_X), eol(VN_2), eol(PFT_1000_2), eol(PPA_1), eol(HB_10),
     eol(PW_80), eol(JUNK), eol(MTA_Q12), eol(MTA_F112), eol(MTA_F129),
     eol(MTA_F00), eol(MTA_F0x), eol(MTA_Rx), eol(MTA_R1x), eol(MTA_L41_R0),
     eol(MTA_L41), eol(MTA_V50xx)}
    \cup {eol(Prefixes[i]) : i \in DOMAIN Prefixes}

ActionRoom == 1

NextAction ==
    \/ \E fresh \in BOOLEAN : connect(fresh)
    \/ \E ub \in BOOLEAN : check(ub)
    \/ \E d \in BOOLEAN : setDelegate(d)
    \/ addLocomotive(L41)
    \/ releaseLocomotive
    \/ \E pressed \in BOOLEAN : setFunction(3, pressed)
    \/ \E bytes \in ActionLines : serverSend(bytes, ActionRoom)

SpecAction == InitClient /\ [][NextAction]_vars

----------------------------------------------------------------------------
(* SpecPoll: check() in steps against a server that may write at any       *)
(* moment, between two turns of the loop too.  The host goes on executing: *)
(* a turn of the loop, or the return, that stays possible is taken.        *)

PollChunks == {JUNK, <<NEWLINE>>, eol(HB_10)}

PollRoom == 1

NextPoll ==
    \/ (op # "checking" /\ \E fresh \in BOOLEAN : connect(fresh))
    \/ \E ub \in BOOLEAN : checkBegin(ub)
    \/ \E ub \in BOOLEAN : checkRead(ub)
    \/ checkReturn
    \/ \E bytes \in PollChunks : serverWrite(bytes, PollRoom)

SpecPoll ==
    /\ InitClient
    /\ [][NextPoll]_vars
    /\ WF_vars(\E ub \in BOOLEAN : checkRead(ub))
    /\ WF_vars(checkReturn)

----------------------------------------------------------------------------
(* SpecBeat: the heartbeat -- a server that announces periods of 1, 3 and  *)
(* 10 seconds to a host that polls at least once in every second.          *)

BeatLines == {eol(HB_10), eol(HB_3), eol(HB_1)}

BeatRoom == 1

BeatSecs == 11

NextBeat ==
    \/ \E fresh \in BOOLEAN : connect(fresh)
    \/ \E ub \in BOOLEAN : check(ub)
    \/ \E bytes \in BeatLines : serverSend(bytes, BeatRoom)
    \/ tickPolled(BeatSecs)

SpecBeat == InitClient /\ [][NextBeat]_vars

----------------------------------------------------------------------------
(* What the claims speak of.                                               *)

lines == handedIn(segs)

\* the values init() and the constructor give
clockInitial == currentFastTime = 0 /\ fastTimeRate = 0

heartbeatInitial == heartbeatPeriod = 0

locomotiveInitial ==
    currentAddress = <<>> /\ currentSpeed = 0 /\ currentDirection = Forward

flagsInitial == ~clockChanged /\ ~heartbeatChanged /\ ~locomotiveChanged

\* the one line of a poll that handed over exactly one line
oneLine == lines[1].text

\* the last poll handed over one line, "MTA*<;>", the letter `action` and more
actionPolled(action) ==
    /\ op = "check" /\ stream /\ Len(lines) = 1
    /\ Len(oneLine) > Len(MTA_all) + 1
    /\ startsWith(oneLine, MTA_all \o <<action>>)

\* the text after the action letter of that line
actionPayload == substring(oneLine, Len(MTA_all) + 1)

\* what check() would make of the available bytes were the delegate d
checkAs(d, ub) ==
    readAll(checkHeartbeat(checkFastTime([checkStart(ub) EXCEPT !.delegate = d])),
            avail)

\* the fields no inbound line but a clock, heartbeat, version or direction
\* line is to change
settings == <<deviceName, heartbeatPeriod, currentFastTime, fastTimeRate,
              protocolVersion, currentAddress, currentSpeed, currentDirection,
              locomotiveSelected>>

\* one of the lines ls was a fast-time line
clockLine(ls) == \E i \in DOMAIN ls : ls[i].kind = "FastTime"

\* the texts of the lines ls
texts(ls) == [i \in DOMAIN ls |-> ls[i].text]

\* the lines handed over by two calls of check(), the first finding the
\* first k of the available bytes and the second the rest
splitLines(ub, k) ==
    LET first  == readAll(checkHeartbeat(checkFastTime(checkStart(ub))),
                          SubSeq(avail, 1, k))
        second == readAll(checkHeartbeat(checkFastTime(checkEntry(first))),
                          SubSeq(avail, k + 1, Len(avail)))
    IN  handedIn(first.segs) \o handedIn(second.segs)

PublicOps == {"check", "setDeviceName", "addLocomotive", "releaseLocomotive",
              "setSpeed", "setDirection", "setFunction", "emergencyStop",
              "requireHeartbeat"}

----------------------------------------------------------------------------
(* C1.  With a transport attached, no byte available and neither timer     *)
(* due, check() returns false and changes no engine state; and check()     *)
(* returns true only when it processed a command or a timer fired.         *)
(* (Stated as the claim has it; the code returns true from every check()   *)
(* on an attached transport, because checkFastTime() always returns true.) *)
C1_IdleCheckReturnsFalse ==
    [][(op' = "check" /\ stream)
         => /\ (avail = <<>> /\ ~fastTimeDue /\ ~heartbeatDue)
                 => (ret' = FALSE /\ UNCHANGED engine)
            /\ ret' => (lines' # <<>> \/ fastTimeDue \/ heartbeatDue)]_vars

----------------------------------------------------------------------------
(* C2.  disconnect() followed by connect() leaves fast time, rate and      *)
(* heartbeat period at 0 and the locomotive session at its initial values  *)
(* (no selected address, speed 0, direction Forward).                      *)
(* (Stated as the claim has it; init() does not touch currentAddress,      *)
(* currentSpeed or currentDirection.)                                      *)
C2_ReconnectRestoresInitial ==
    [][(op = "disconnect" /\ op' = "connect")
         => (clockInitial' /\ heartbeatInitial' /\ locomotiveInitial')]_vars

----------------------------------------------------------------------------
----------------------------------------------------------------------------
(* C4, as claimed: with no transport every public operation emits          *)
(* nothing, calls no delegate method, leaves device name, clock, heartbeat *)
(* and locomotive state unchanged, and check() returns false.              *)
C4_DetachedNoOp ==
    [][(~stream /\ op' \in PublicOps)
         => /\ out' = <<>> /\ calls' = <<>>
            /\ UNCHANGED <<deviceName, currentFastTime, fastTimeRate,
                           heartbeatPeriod, currentAddress, currentSpeed,
                           currentDirection>>
            /\ (op' = "check" => ~ret')]_vars

(* C4, amended: with no transport every public operation emits nothing,    *)
(* calls no delegate method and leaves clock and heartbeat state           *)
(* unchanged, and check() returns false; the device name, the selected     *)
(* address, the speed and the direction are left unchanged by every        *)
(* operation but setDeviceName, addLocomotive, setSpeed and setDirection,  *)
(* which store their argument as they do with a transport.                 *)
C4_DetachedEmitsNothing ==
    [][(~stream /\ op' \in PublicOps)
         => /\ out' = <<>> /\ calls' = <<>>
            /\ UNCHANGED <<currentFastTime, fastTimeRate, heartbeatPeriod,
                           inputbuffer, nextChar>>
            /\ (op' # "setDeviceName" => UNCHANGED deviceName)
            /\ (op' # "addLocomotive" => UNCHANGED currentAddress)
            /\ (op' # "setSpeed" => UNCHANGED currentSpeed)
            /\ (op' # "setDirection" => UNCHANGED currentDirection)
            /\ (op' = "check" => ~ret')]_vars

\* a speed stored, and nothing sent, with no transport
C4_Witness ==
    ~stream /\ op = "setSpeed" /\ ret /\ currentSpeed = 50 /\ out = <<>>

----------------------------------------------------------------------------
----------------------------------------------------------------------------
(* C6.  The cursor stays below the buffer's capacity, no write (data byte  *)
(* or terminator) lands outside the buffer, and no line handed to the      *)
(* parser is longer than capacity - 1.                                     *)
C6_BufferBounds ==
    /\ nextChar >= 0 /\ nextChar < InputBufferSize
    /\ Len(inputbuffer) = nextChar
    /\ maxIdx < InputBufferSize
    /\ \A i \in DOMAIN lines : Len(lines[i].text) <= InputBufferSize - 1

\* a poll in which the buffer filled up and its last slot was written
C6_Witness ==
    op = "check" /\ maxIdx = InputBufferSize - 1 /\ nextChar = 0

----------------------------------------------------------------------------
(* C7.  Once a segment overflows the buffer, none of its bytes up to its   *)
(* terminating newline is handed to the parser.                            *)
(* (Stated as the claim has it; the code restarts the line at the overflow *)
(* point, so the tail of an overlong line is parsed as a line of its own.) *)
C7_OverlongDiscarded ==
    \A i \in DOMAIN segs : segs[i].len >= LineLimit => segs[i].handed = <<>>

----------------------------------------------------------------------------
(* C8.  A FastTime line whose payload holds the separator sets the fast    *)
(* time and the rate from its two fields; one without the separator sets   *)
(* the fast time alone and leaves the rate; a non-numeric field is 0.      *)
(* (Stated as the claim has it, for a poll that hands over one line; the   *)
(* code takes the separator only at an index above 0.)                     *)
C8_FastTimeSetsTimeAndRate ==
    [][(op' = "check" /\ Len(lines') = 1
        /\ Len(lines'[1].text) > 3
        /\ startsWith(lines'[1].text, <<"P", "F", "T">>))
         => LET payload == substring(lines'[1].text, 3)
                p       == indexOf(payload, PROPERTY_SEPARATOR)
            IN  IF p >= 0
                THEN /\ currentFastTime' = 10 * toInt(substring2(payload, 0, p))
                     /\ fastTimeRate' = toFloat(substring(payload, p + 3))
                ELSE /\ currentFastTime' = 10 * toInt(payload)
                     /\ fastTimeRate' = fastTimeRate]_vars

----------------------------------------------------------------------------
(* C9.  At the return of check(), clockChanged is true if the fast time    *)
(* was changed in that call -- by a processed PFT line or by the ticker    *)
(* advancing it at a nonzero rate -- and false otherwise.                  *)
(* (Stated as the claim has it; processFastTime() never sets the flag.)    *)
C9_ClockChangedTracksFastTime ==
    [][(op' = "check" /\ stream)
         => /\ currentFastTime' # currentFastTime => clockChanged'
            /\ clockChanged'
                 => \/ \E i \in DOMAIN lines' : lines'[i].kind = "FastTime"
                    \/ (fastTimeDue /\ fastTimeRate # 0)]_vars

----------------------------------------------------------------------------
(* C10.  A Heartbeat line "*<payload>" sets the period to the numeric      *)
(* value of the payload; the line counts as a change, and heartbeatChanged *)
(* becomes true, only if that value is strictly positive.  After a poll:   *)
(* the period is the value of the last heartbeat line handed over, each    *)
(* heartbeat line returned true exactly if its value was positive, and     *)
(* heartbeatChanged is true exactly if one of them was positive.           *)
C10_HeartbeatLine ==
    op = "check" =>
        LET hb     == {i \in DOMAIN lines :
                          Len(lines[i].text) > 1 /\ lines[i].text[1] = "*"}
            val(i) == toInt(substring(lines[i].text, 1))
        IN  /\ \A i \in hb : (\A j \in hb : j <= i) => heartbeatPeriod = val(i)
            /\ \A i \in hb : lines[i].rv <=> val(i) > 0
            /\ heartbeatChanged <=> \E i \in hb : val(i) > 0

\* "*10" alone in a poll: period 10, flag set
C10_Witness ==
    /\ op = "check" /\ Len(lines) = 1 /\ lines[1].text = HB_10
    /\ heartbeatPeriod = 10 /\ heartbeatChanged /\ lines[1].rv

----------------------------------------------------------------------------
(* C11.  check() sends the heartbeat "*" exactly when the period is above  *)
(* 0 and the time since the timer was last restarted is at least 0.8 times *)
(* the period, and then restarts the timer; none is sent while the period  *)
(* is 0 or less.                                                           *)
(* (Stated as the claim has it; the code hands 0.8 * heartbeatPeriod to a  *)
(* timer that takes whole seconds, so the fraction is dropped: a period of *)
(* 3 fires after 2 seconds, and a period of 1 on every check().)           *)
C11_HeartbeatAtFourFifths ==
    [][(op' = "check" /\ stream)
         => LET elapsed == now - heartbeatTimer
                sent    == out' = <<<<"*">>>>
            IN  /\ sent <=> (heartbeatPeriod > 0
                             /\ 10 * elapsed >= 8 * heartbeatPeriod)
                /\ sent => heartbeatTimer' = now
                /\ ~sent => (out' = <<>> /\ UNCHANGED heartbeatTimer)]_vars

----------------------------------------------------------------------------
----------------------------------------------------------------------------
(* C13.  An inbound speed action "MTA*<;>V<n>", with a delegate attached:  *)
(* n outside 0..126 becomes 0, and the value is reported through           *)
(* receivedSpeed and stored as the current speed, which getSpeed() returns.*)
(* (Stated as the claim has it; processSpeed() reports the value and does  *)
(* not store it.)                                                          *)
C13_SpeedReportedAndStored ==
    [][(actionPolled("V")' /\ delegate)
         => LET n == toInt(actionPayload')
                v == IF n < 0 \/ n > 126 THEN 0 ELSE n
            IN  /\ calls' = <<Call("receivedSpeed", v)>>
                /\ currentSpeed' = v]_vars

----------------------------------------------------------------------------
(* C14.  An inbound speed-steps action "MTA*<;>s<n>", with a delegate      *)
(* attached: receivedSpeedSteps(n) is called if and only if n is one of    *)
(* 1, 2, 4, 8, 16; for any other n nothing is reported and no state        *)
(* changes.                                                                *)
C14_SpeedStepsFiltered ==
    [][(actionPolled("s")' /\ delegate)
         => LET n == toInt(actionPayload')
            IN  IF n \in {1, 2, 4, 8, 16}
                THEN calls' = <<Call("receivedSpeedSteps", n)>>
                ELSE /\ calls' = <<>>
                     /\ UNCHANGED <<deviceName, heartbeatPeriod, currentFastTime,
                                    fastTimeRate, protocolVersion, currentAddress,
                                    currentSpeed, currentDirection,
                                    locomotiveSelected>>]_vars

\* "MTA*<;>s4" reported as 4 steps
C14_Witness ==
    /\ actionPolled("s") /\ delegate /\ oneLine = MTA_s4
    /\ calls = <<Call("receivedSpeedSteps", 4)>>

----------------------------------------------------------------------------
(* C17.  Whatever lines a check() processes, the engine state it leaves    *)
(* with no delegate attached -- fast time, rate, heartbeat period, stored  *)
(* direction, stored protocol version, change flags, result -- is the      *)
(* state it leaves with a delegate attached.                               *)
(* (Stated as the claim has it; processDirection() and                     *)
(* processProtocolVersion() store nothing when there is no delegate.)      *)
C17_DelegateOnlyNotifies ==
    [][(op' = "check" /\ stream)
         => \A ub \in BOOLEAN :
              LET with    == checkAs(TRUE, ub)
                  without == checkAs(FALSE, ub)
              IN  /\ with.currentFastTime = without.currentFastTime
                  /\ with.fastTimeRate = without.fastTimeRate
                  /\ with.heartbeatPeriod = without.heartbeatPeriod
                  /\ with.currentDirection = without.currentDirection
                  /\ with.protocolVersion = without.protocolVersion
                  /\ with.clockChanged = without.clockChanged
                  /\ with.heartbeatChanged = without.heartbeatChanged
                  /\ with.locomotiveChanged = without.locomotiveChanged
                  /\ with.changed = without.changed]_vars

----------------------------------------------------------------------------
(* C18.  With a delegate attached, a check() that changes the fast time    *)
(* calls fastTimeChanged with the new time, and one that receives a rate   *)
(* calls fastTimeRateChanged with it.                                      *)
(* (Stated as the claim has it; the code calls neither method anywhere.)   *)
C18_FastTimeNotified ==
    [][(op' = "check" /\ stream /\ delegate)
         => /\ currentFastTime' # currentFastTime
                 => \E i \in DOMAIN calls' :
                       calls'[i] = Call("fastTimeChanged", currentFastTime')
            /\ fastTimeRate' # fastTimeRate
                 => \E i \in DOMAIN calls' :
                       calls'[i] = Call("fastTimeRateChanged", fastTimeRate')]_vars

----------------------------------------------------------------------------
(* C20.  processCommand takes a completed line for the first of the        *)
(* prefixes PFT, PPA, "*", VN, PW, MTA that it starts with and is longer   *)
(* than -- so every line that starts with MTA and is longer than 3 is a    *)
(* LocomotiveAction -- and ignores a line that is a bare prefix, or        *)
(* starts with none.                                                       *)
(* (Stated as the claim has it; the code takes a line for a                *)
(* LocomotiveAction only if it is longer than 8.)                          *)
C20_FirstPrefixWins ==
    \A i \in DOMAIN lines :
        LET text  == lines[i].text
            kinds == <<"FastTime", "TrackPower", "Heartbeat", "ProtocolVersion",
                       "WebPort", "LocomotiveAction">>
            hits  == {k \in DOMAIN Prefixes :
                        startsWith(text, Prefixes[k]) /\ Len(text) > Len(Prefixes[k])}
        IN  lines[i].kind = IF hits = {} THEN "Ignored"
                            ELSE kinds[CHOOSE k \in hits : \A j \in hits : k <= j]

----------------------------------------------------------------------------
(* C15.  setSpeed(v) returns false, emits nothing and leaves the stored    *)
(* speed alone when no locomotive is selected or v is outside 0..126;      *)
(* otherwise it emits "MTA*<;>V<v>", stores v and returns true; so the     *)
(* stored speed stays within 0..126.                                       *)
(* (Stated as the claim has it; the code does not look at whether a        *)
(* locomotive is selected.)                                                *)
C15_SetSpeedGuarded ==
    [][op' = "setSpeed"
         => \/ ~ret' /\ out' = <<>> /\ UNCHANGED currentSpeed
            \/ /\ ret'
               /\ currentAddress # <<>>
               /\ currentSpeed' \in 0 .. 126
               /\ stream => out' = << MTA_all \o <<"V">>
                                        \o IntToString(currentSpeed') >>]_vars

----------------------------------------------------------------------------
(* C16.  addLocomotive(address) returns true exactly when the address is   *)
(* S or L followed by a number; when true it emits                         *)
(* "MT+<address><;><address>" and the address becomes the selected one;    *)
(* when false it emits nothing and leaves the selected address alone.      *)
(* (Stated as the claim has it; the code looks at the first character      *)
(* only.)                                                                  *)
C16_AddLocomotiveWellFormed ==
    [][op' = "addLocomotive"
         => IF ret'
            THEN /\ Len(currentAddress') >= 2
                 /\ currentAddress'[1] \in {"S", "L"}
                 /\ \A i \in 2 .. Len(currentAddress') :
                        currentAddress'[i] \in Digits
                 /\ stream => out' = << <<"M", "T", "+">> \o currentAddress'
                                         \o PROPERTY_SEPARATOR \o currentAddress' >>
            ELSE out' = <<>> /\ UNCHANGED currentAddress]_vars

----------------------------------------------------------------------------
(* C19.  Every call of check() returns, whatever the server sends and      *)
(* whenever it sends it.                                                   *)
(* (Stated as the claim has it; the loop of check() runs for as long as    *)
(* a byte is available, so a server that has the next byte ready at every  *)
(* turn keeps the call from returning.)                                    *)
C19_CheckReturns == (op = "checking") ~> (op = "check")

----------------------------------------------------------------------------
(* C21.  Of the payload of a LocomotiveAction line the prefix              *)
(* "<selected address><;>" is stripped if it is there, else the prefix     *)
(* "*<;>" if it is there, else nothing; the action is chosen by the first  *)
(* character of what remains.  Nothing remaining: the line returns false,  *)
(* changes nothing and notifies nothing.  A first character other than F,  *)
(* V, s, R: it changes nothing and notifies nothing.  For a poll that      *)
(* hands over one such line: the delegate method called, if one is, is     *)
(* the one of that character, and with a delegate attached a V action and  *)
(* a two-character R action do call theirs.                                *)
C21_ActionDispatch ==
    [][(op' = "check" /\ stream /\ Len(lines') = 1
        /\ lines'[1].kind = "LocomotiveAction")
         => LET payload   == substring(lines'[1].text, 3)
                addrCheck == currentAddress \o PROPERTY_SEPARATOR
                allCheck  == <<"*">> \o PROPERTY_SEPARATOR
                rem == IF startsWith(payload, addrCheck)
                       THEN substring(payload, Len(addrCheck))
                       ELSE IF startsWith(payload, allCheck)
                            THEN substring(payload, Len(allCheck))
                            ELSE payload
                method == [F |-> "receivedFunctionState", V |-> "receivedSpeed",
                           s |-> "receivedSpeedSteps", R |-> "receivedDirection"]
            IN  IF rem = <<>>
                THEN ~lines'[1].rv /\ calls' = <<>> /\ UNCHANGED settings
                ELSE /\ lines'[1].rv
                     /\ rem[1] \notin {"F", "V", "s", "R"}
                          => (calls' = <<>> /\ UNCHANGED settings)
                     /\ calls' # <<>>
                          => (rem[1] \in {"F", "V", "s", "R"}
                              /\ Len(calls') = 1
                              /\ calls'[1].m = method[rem[1]])
                     /\ (delegate /\ rem[1] = "V" /\ Len(rem) >= 2)
                          => calls' # <<>>
                     /\ (delegate /\ rem[1] = "R" /\ Len(rem) = 2)
                          => calls' # <<>>]_vars

\* "MTAL41<;>R0" for the selected address L41: the direction is reported
C21_Witness ==
    /\ op = "check" /\ stream /\ delegate /\ currentAddress = L41
    /\ Len(lines) = 1 /\ oneLine = MTA_L41_R0
    /\ calls = <<Call("receivedDirection", Reverse)>>

----------------------------------------------------------------------------
(* C22.  An inbound function action "F<s><digits>", with a delegate        *)
(* attached: the state is on if and only if <s> is "1"; the number is the  *)
(* value of the text after it; a number of 0 from a text that is not "0"   *)
(* suppresses the action; otherwise receivedFunctionState(number, state)   *)
(* is called, and the number it is called with is within 0..28.            *)
(* (Stated as the claim has it; the code calls the delegate with whatever  *)
(* number the text holds, as a uint8_t.)                                   *)
C22_FunctionStateInRange ==
    [][(actionPolled("F")' /\ delegate)
         => LET text   == substring(actionPayload', 1)
                number == toInt(text)
                state  == actionPayload'[1] = "1"
            IN  IF number = 0 /\ text # <<"0">>
                THEN calls' = <<>>
                ELSE /\ calls' = <<Call("receivedFunctionState", <<number, state>>)>>
                     /\ calls'[1].a[1] \in 0 .. 28]_vars

----------------------------------------------------------------------------
(* C23.  An inbound direction action that begins with R, with a delegate   *)
(* attached: a second character "0" stores Reverse and reports it;         *)
(* anything else, an action that is not two characters long included,      *)
(* stores Forward and reports it.                                          *)
(* (Stated as the claim has it; the code does nothing with a direction     *)
(* action that is not exactly two characters long.)                        *)
C23_DirectionFallsBackToForward ==
    [][(actionPolled("R")' /\ delegate)
         => LET d == IF actionPayload'[1] = "0" /\ Len(actionPayload') = 1
                     THEN Reverse ELSE Forward
            IN  /\ currentDirection' = d
                /\ calls' = <<Call("receivedDirection", d)>>]_vars

----------------------------------------------------------------------------
(* C24.  The fast-clock ticker fires in a check() only if a real second    *)
(* has passed since it last fired, and then restarts its timer, so at most *)
(* once a second and once a check().  When it fires with a rate of 0 the   *)
(* fast time is not advanced and clockChanged stays false; with a rate     *)
(* other than 0 exactly the rate is added and clockChanged is true.  When  *)
(* it does not fire it changes nothing.  (The fast time is compared for    *)
(* polls that hand over no fast-time line.)                                *)
C24_TickerOncePerSecond ==
    [][(op' = "check" /\ stream)
         => LET fired == fastTimeTimer' # fastTimeTimer
            IN  /\ fired <=> now - fastTimeTimer >= 1
                /\ fired => fastTimeTimer' = now
                /\ (fired /\ fastTimeRate = 0)
                     => /\ ~clockChanged'
                        /\ ~clockLine(lines') => currentFastTime' = currentFastTime
                /\ (fired /\ fastTimeRate # 0)
                     => /\ clockChanged'
                        /\ ~clockLine(lines')
                             => currentFastTime' = currentFastTime + fastTimeRate
                /\ ~fired
                     => /\ ~clockChanged'
                        /\ ~clockLine(lines') => currentFastTime' = currentFastTime]_vars

\* a tick at the rate 2.0 on the fast time 1000
C24_Witness ==
    /\ op = "check" /\ stream /\ clockChanged /\ fastTimeRate = 20
    /\ currentFastTime = 10020 /\ fastTimeTimer = now /\ now >= 1

----------------------------------------------------------------------------
(* C25.  With a rate r other than 0 and no fast-time line in between,      *)
(* after k whole real seconds the fast time has advanced by k times r,     *)
(* however the host spaces its calls of check(): a check() that finds k    *)
(* seconds passed since the check() before it advances the fast time by    *)
(* k times r.                                                              *)
(* (Stated as the claim has it; the code adds the rate once in a check(),  *)
(* however many seconds have passed.)                                      *)
C25_FastTimeKeepsPace ==
    [][(op' = "check" /\ stream /\ fastTimeRate # 0 /\ ~clockLine(lines'))
         => currentFastTime'
              = currentFastTime + (now - fastTimeTimer) * fastTimeRate]_vars

----------------------------------------------------------------------------
(* C29.  At the return of every check(), heartbeatChanged implies that     *)
(* the stored heartbeat period is above 0.                                 *)
(* (Stated as the claim has it; a heartbeat line with a period of 0 or     *)
(* less stores the period and leaves the flag a line before it set.)       *)
C29_ChangedMeansPositive ==
    (op = "check" /\ heartbeatChanged) => heartbeatPeriod > 0

----------------------------------------------------------------------------
(* C26.  The fast time and the rate are changed only by connect(), which   *)
(* resets them, and by a check() on an attached transport whose ticker     *)
(* fires or which processes a fast-time line -- the rate only by connect() *)
(* and by such a line; every other operation leaves both unchanged.        *)
C26_ClockFrame ==
    [][/\ (currentFastTime' # currentFastTime \/ fastTimeRate' # fastTimeRate)
            => \/ op' = "connect"
               \/ /\ op' = "check" /\ stream
                  /\ clockLine(lines') \/ fastTimeDue
       /\ fastTimeRate' # fastTimeRate
            => \/ op' = "connect"
               \/ op' = "check" /\ stream /\ clockLine(lines')]_vars

\* a running clock left alone by a track-power line and then by setDirection
C26_Witness ==
    /\ stream /\ currentFastTime = 10000 /\ fastTimeRate = 20
    /\ \/ op = "setDirection"
       \/ op = "check" /\ Len(lines) = 1 /\ oneLine = PPA_1

----------------------------------------------------------------------------
(* C28.  setFunction(n, pressed) emits "MTA<selected address><;>F1<n>"     *)
(* or "...F0<n>", the address being S or L and a number, when n is within  *)
(* 0..28, and nothing when it is not; it changes no engine state.          *)
(* (Stated as the claim has it; the code puts whatever currentAddress      *)
(* holds into the command, the empty text of an engine that selected no    *)
(* locomotive included.)                                                   *)
C28_SetFunctionCommand ==
    [][op' = "setFunction"
         => /\ UNCHANGED engine
            /\ \/ out' = <<>>
               \/ /\ stream
                  /\ Len(currentAddress) >= 2
                  /\ currentAddress[1] \in {"S", "L"}
                  /\ \A i \in 2 .. Len(currentAddress) : currentAddress[i] \in Digits
                  /\ \E n \in 0 .. 28, s \in {"0", "1"} :
                        out' = << <<"M", "T", "A">> \o currentAddress
                                   \o PROPERTY_SEPARATOR \o <<"F", s>>
                                   \o IntToString(n) >>]_vars

----------------------------------------------------------------------------
(* C27.  The lines handed to the parser do not depend on how the bytes     *)
(* are split over calls of check(): the lines a check() hands over for     *)
(* the bytes it finds, after whatever the calls before it left in the      *)
(* buffer, are the lines two calls would hand over that found the same     *)
(* bytes split at any point.                                               *)
C27_PartialReadsTransparent ==
    [][(op' = "check" /\ stream)
         => \A ub \in BOOLEAN, k \in 0 .. Len(avail) :
                texts(splitLines(ub, k)) = texts(lines')]_vars

\* the line "xx", which the server can only deliver over two polls
C27_Witness ==
    /\ op = "check" /\ stream /\ Len(lines) = 1
    /\ oneLine = <<"x", "x">> /\ segs[1].len = 2

----------------------------------------------------------------------------
----------------------------------------------------------------------------
(* C31.  After connect() no heartbeat "*" is emitted on the connection     *)
(* until a heartbeat line with a period above 0 has been processed on it,  *)
(* and a period learnt in one check() causes an emission in a later call   *)
(* at the earliest: a check() that emits "*" found a period above 0        *)
(* stored, given on this connection, when it was called.                   *)
C31_NoHeartbeatBeforePeriod ==
    [][(op' = "check" /\ \E i \in DOMAIN out' : out'[i] = <<"*">>)
         => (stream /\ heartbeatPeriod > 0 /\ lastBeat >= 0)]_vars

\* the first heartbeat of a connection: the period 1 was learnt in the
\* call before, in the same second
C31_Witness ==
    /\ op = "check" /\ stream /\ out = <<<<"*">>>> /\ heartbeatPeriod = 1
    /\ now = 0 /\ lines = <<>>

----------------------------------------------------------------------------
(* C32.  releaseLocomotive() emits "MT-*<;>" and leaves the selected       *)
(* address, the stored speed and the stored direction as they were: a      *)
(* setFunction() after it still addresses the released locomotive, and a   *)
(* check() after it still strips the prefix of an "MTA" line that carries  *)
(* that address and acts on what follows.                                  *)
C32_ReleaseKeepsSelection ==
    [][/\ op' = "releaseLocomotive"
          => /\ ret'
             /\ out' = IF stream
                       THEN << <<"M", "T", "-", "*">> \o PROPERTY_SEPARATOR >>
                       ELSE <<>>
             /\ UNCHANGED <<currentAddress, currentSpeed, currentDirection>>
       /\ (op = "releaseLocomotive" /\ op' = "setFunction" /\ stream)
          => /\ Len(out') = 1
             /\ startsWith(out'[1], <<"M", "T", "A">> \o currentAddress
                                     \o PROPERTY_SEPARATOR \o <<"F">>)
       /\ (/\ op = "releaseLocomotive" /\ op' = "check" /\ stream /\ delegate
           /\ currentAddress # <<>>
           /\ avail = eol(<<"M", "T", "A">> \o currentAddress
                           \o PROPERTY_SEPARATOR \o <<"R", "0">>))
          => /\ Len(calls') = 1 /\ calls'[1].m = "receivedDirection"
             /\ calls'[1].a = Reverse]_vars

\* the locomotive L41 was released and the server answers for it
C32_Witness ==
    /\ op = "releaseLocomotive" /\ stream /\ delegate /\ currentAddress = L41
    /\ out = << <<"M", "T", "-", "*">> \o PROPERTY_SEPARATOR >>
    /\ avail = eol(MTA_L41_R0)

----------------------------------------------------------------------------
(* C33.  The locomotiveChanged flag is false in every reachable state: no  *)
(* locomotive action received (F, V, s, R) and no command sent sets it, so *)
(* it never tells the host of a change to the locomotive.                  *)
C33_LocomotiveChangedNeverSet == ~locomotiveChanged

\* a check() that reported the speed of the selected locomotive L41 to the
\* delegate and returned true with the flag still down
C33_Witness ==
    /\ op = "check" /\ stream /\ delegate /\ ret /\ currentAddress = L41
    /\ Len(calls) = 1 /\ calls[1].m = "receivedSpeed" /\ calls[1].a = 50
    /\ ~locomotiveChanged

====
